---------------------------- MODULE Spec2Model ----------------------------
(***************************************************************************)
(* Transactional funds-transfer engine of go-backend-bank (db/sqlc store). *)
(*                                                                         *)
(* Store.execTx and Store.TransferTx are translated statement by statement *)
(* from the Go source.  The generated query layer (CreateTransfer,         *)
(* CreateEntry, AddAccountBalance) and the relational store's transactions *)
(* and row locks are the engine's external collaborators: they are         *)
(* modelled from the specification (READ COMMITTED visibility, a row lock  *)
(* taken by a balance update and held until commit or rollback).  A row   *)
(* is modelled by the columns the engine writes; the id and created_at     *)
(* columns the store generates are left out, so the transfers and entries  *)
(* tables are bags of rows.                                                *)
(***************************************************************************)
EXTENDS Integers, Sequences, FiniteSets, Bags, TLC

\* ------------------------------------------------------------------ bounds
MaxCalls == 2        \* TransferTx invocations in one behaviour
MaxRequests == 1     \* transfer requests the endpoint serves in one behaviour

\* two concurrent callers of TransferTx and two account rows: enough for
\* transfers in the same direction, in opposite directions and to oneself
Workers == {"w1", "w2"}
Accounts == {1, 2}
NoWorker == "none"

\* amounts a caller may request (arg.Amount); the scenario's 30 and 150
Amounts == {30, 150}

\* ------------------------------------------------------------ error values
\* An error is modelled by its message, a sequence of text fragments; nil is
\* the empty sequence.
NilErr == <<>>

\* the error a failing store operation reports, one per operation
StoreErr(op) == <<op, ": driver: bad connection">>

\* fmt.Errorf("tx err: %v\nrb err: %v", err, rbErr): a new error whose message
\* is the concatenation of the fixed text and the two messages.
ErrorfRbOnly(e, rb) == <<"rb err: ">> \o rb

ErrorfTxRb(e, rb) == <<"tx err: ">> \o e \o <<"\nrb err: ">> \o rb

\* message m occurs inside message e
Carries(e, m) ==
    \E i \in 0..(Len(e) - Len(m)) : SubSeq(e, i + 1, i + Len(m)) = m

\* -------------------------------------------------------------------- rows
Owners == <<"alice", "bob">>
OwnerOf(id) == Owners[((id - 1) % Len(Owners)) + 1]

\* the scenario's opening balances: account 1 holds 100, the others nothing
InitBalance(id) == IF id = 1 THEN 100 ELSE 0

InitAccount(id) ==
    [id |-> id, owner |-> OwnerOf(id), balance |-> InitBalance(id), currency |-> "CAD"]

\* Go zero values of the row structs
ZeroAccount == [id |-> 0, owner |-> "", balance |-> 0, currency |-> ""]
ZeroTransfer == [from_account_id |-> 0, to_account_id |-> 0, amount |-> 0]
ZeroEntry == [account_id |-> 0, amount |-> 0]

ZeroResult ==
    [Transfer |-> ZeroTransfer, FromAccount |-> ZeroAccount, ToAccount |-> ZeroAccount,
     FromEntry |-> ZeroEntry, ToEntry |-> ZeroEntry]

ZeroArg == [FromAccountID |-> 0, ToAccountID |-> 0, Amount |-> 0]

\* zero value of createTransferRequest, with the principal the authorization
\* header names ("" when the request carries no valid authorization)
NoAuth == ""
ZeroRequest ==
    [from_account_id |-> 0, to_account_id |-> 0, amount |-> 0, currency |-> "",
     username |-> NoAuth]

\* an open transaction's uncommitted writes
EmptyTx == [transfers |-> EmptyBag, entries |-> EmptyBag, accounts |-> {}]

VARIABLES
    accounts,        \* committed accounts table: id -> row
    transfers,       \* committed transfers table (bag of rows)
    entries,         \* committed entries table (bag of rows)
    lock,            \* row lock on each account: holder or NoWorker
    pc,              \* each worker's position in TransferTx / execTx
    arg,             \* TransferTx's arg
    result,          \* TransferTx's result
    err,             \* execTx's err: BeginTx's error, then fn's
    rbErr,           \* execTx's rbErr
    ret,             \* the error execTx, and so TransferTx, returned
    tx,              \* the open transaction's uncommitted writes
    calls,           \* store operations this call has invoked, in order
    ncalls,          \* TransferTx invocations (transfer requests) so far
    req,             \* the transfer request a handler is serving
    resp,            \* the status code written to the response, 0 while none
    hlog             \* store methods the handler has invoked, in order

vars == <<accounts, transfers, entries, lock, pc, arg, result, err, rbErr, ret, tx,
          calls, ncalls, req, resp, hlog>>

store == <<accounts, transfers, entries>>

\* the HTTP handler's state, which the engine never touches
api == <<req, resp, hlog>>

Init ==
    /\ accounts = [id \in Accounts |-> InitAccount(id)]
    /\ transfers = EmptyBag
    /\ entries = EmptyBag
    /\ lock = [id \in Accounts |-> NoWorker]
    /\ pc = [w \in Workers |-> "idle"]
    /\ arg = [w \in Workers |-> ZeroArg]
    /\ result = [w \in Workers |-> ZeroResult]
    /\ err = [w \in Workers |-> NilErr]
    /\ rbErr = [w \in Workers |-> NilErr]
    /\ ret = [w \in Workers |-> NilErr]
    /\ tx = [w \in Workers |-> EmptyTx]
    /\ calls = [w \in Workers |-> <<>>]
    /\ ncalls = 0
    /\ req = [w \in Workers |-> ZeroRequest]
    /\ resp = [w \in Workers |-> 0]
    /\ hlog = [w \in Workers |-> <<>>]

\* ------------------------------------------------ the store (collaborator)
\* one invocation of a store operation: its name, the account row it names
\* (0 when it names none) and whether it succeeded
Call(op, id, ok) == [op |-> op, id |-> id, ok |-> ok]

Invoke(w, op, id, ok) == calls' = [calls EXCEPT ![w] = Append(@, Call(op, id, ok))]

\* the row of account id as transaction w sees it: its own uncommitted update
\* if it has one, the committed row otherwise
Visible(w, id) ==
    IF \E r \in tx[w].accounts : r.id = id
    THEN CHOOSE r \in tx[w].accounts : r.id = id
    ELSE accounts[id]

\* UPDATE accounts SET balance = balance + amount WHERE id = ... RETURNING *
AddedRow(row, amount) == [row EXCEPT !.balance = row.balance + amount]

\* the row lock a balance update needs is free, or already held by w
CanLock(w, id) == lock[id] \in {NoWorker, w}

ReleaseLocks(w) == [id \in Accounts |-> IF lock[id] = w THEN NoWorker ELSE lock[id]]

\* rows of the accounts table once w's transaction is committed
AppliedAccounts(w) == [id \in Accounts |-> Visible(w, id)]

\* ------------------------------------------- TransferTx's argument building
CreateTransferParamsSwapped(a) ==
    [FromAccountID |-> a.ToAccountID, ToAccountID |-> a.FromAccountID, Amount |-> a.Amount]

CreateTransferParams(a) ==
    [FromAccountID |-> a.FromAccountID, ToAccountID |-> a.ToAccountID, Amount |-> a.Amount]

FromEntryParamsNotNegated(a) == [AccountID |-> a.FromAccountID, Amount |-> a.Amount]

FromEntryParamsOnDest(a) == [AccountID |-> a.ToAccountID, Amount |-> -a.Amount]

FromEntryParams(a) == [AccountID |-> a.FromAccountID, Amount |-> -a.Amount]

ToEntryParamsOnSource(a) == [AccountID |-> a.FromAccountID, Amount |-> a.Amount]

ToEntryParams(a) == [AccountID |-> a.ToAccountID, Amount |-> a.Amount]

FromBalanceParamsNoDebit(a) == [ID |-> a.FromAccountID, Amount |-> 0]

FromBalanceParamsOnDest(a) == [ID |-> a.ToAccountID, Amount |-> -a.Amount]

FromBalanceParamsCredit(a) == [ID |-> a.FromAccountID, Amount |-> a.Amount]

FromBalanceParams(a) == [ID |-> a.FromAccountID, Amount |-> -a.Amount]

ToBalanceParamsNegated(a) == [ID |-> a.ToAccountID, Amount |-> -a.Amount]

ToBalanceParamsOther(a) ==
    [ID |-> IF a.ToAccountID = 1 THEN 2 ELSE 1, Amount |-> a.Amount]

ToBalanceParams(a) == [ID |-> a.ToAccountID, Amount |-> a.Amount]

\* ------------------------------------------------------ execTx's decisions
\* if err != nil { return err } after BeginTx
AfterBeginIgnoresErr(e) == "create_transfer"

AfterBegin(e) == IF e # NilErr THEN "done" ELSE "create_transfer"

\* after fn(q): roll back when fn returned an error, commit otherwise
AfterFnAlwaysCommit(e) == "commit"

AfterFnAlwaysRollback(e) == "rollback"

AfterFnRetries(e) == IF e # NilErr THEN "create_transfer" ELSE "commit"

AfterFnReturnsEarly(e) == IF e # NilErr THEN "done" ELSE "commit"

AfterFn(e) == IF e # NilErr THEN "rollback" ELSE "commit"

\* what execTx returns on the rollback path
RollbackResultSwallowsErr(e, rb) == IF rb # NilErr THEN ErrorfTxRb(e, rb) ELSE NilErr

RollbackResult(e, rb) == IF rb # NilErr THEN ErrorfTxRb(e, rb) ELSE e

\* ----------------------------------------------------------------- actions
\* a caller invokes store.TransferTx(ctx, arg)
TransferTx(w) ==
    /\ pc[w] = "idle"
    /\ ncalls < MaxCalls
    /\ \E from \in Accounts, to \in Accounts, amount \in Amounts :
          arg' = [arg EXCEPT ![w] =
                    [FromAccountID |-> from, ToAccountID |-> to, Amount |-> amount]]
    /\ result' = [result EXCEPT ![w] = ZeroResult]
    /\ pc' = [pc EXCEPT ![w] = "begin"]
    /\ ncalls' = ncalls + 1
    /\ UNCHANGED <<accounts, transfers, entries, lock, err, rbErr, ret, tx, calls, req, resp, hlog>>

\* execTx: tx, err := store.db.BeginTx(ctx, nil); if err != nil { return err }
BeginTx(w) ==
    /\ pc[w] = "begin"
    /\ \E e \in {NilErr, StoreErr("BeginTx")} :
          /\ Invoke(w, "BeginTx", 0, e = NilErr)
          /\ err' = [err EXCEPT ![w] = e]
          /\ ret' = [ret EXCEPT ![w] = e]
          /\ pc' = [pc EXCEPT ![w] = AfterBegin(e)]
    /\ UNCHANGED <<accounts, transfers, entries, lock, arg, result, rbErr, tx, ncalls, req, resp, hlog>>

\* fn returns e to execTx (err = fn(q)), which goes on to roll back or commit
FnReturns(w, e) ==
    /\ err' = [err EXCEPT ![w] = e]
    /\ pc' = [pc EXCEPT ![w] = AfterFn(e)]

\* result.Transfer, err = q.CreateTransfer(ctx, CreateTransferParams{...})
CreateTransfer(w) ==
    /\ pc[w] = "create_transfer"
    /\ \/ LET p == CreateTransferParams(arg[w])
              row == [from_account_id |-> p.FromAccountID,
                      to_account_id |-> p.ToAccountID, amount |-> p.Amount]
          IN  /\ Invoke(w, "CreateTransfer", 0, TRUE)
              /\ tx' = [tx EXCEPT ![w].transfers = @ (+) SetToBag({row})]
              /\ result' = [result EXCEPT ![w].Transfer = row]
              /\ pc' = [pc EXCEPT ![w] = "from_entry"]
              /\ UNCHANGED err
       \/ /\ Invoke(w, "CreateTransfer", 0, FALSE)
          /\ FnReturns(w, StoreErr("CreateTransfer"))
          /\ UNCHANGED <<tx, result>>
    /\ UNCHANGED <<accounts, transfers, entries, lock, arg, rbErr, ret, ncalls, req, resp, hlog>>

\* q.CreateEntry(ctx, p) inside w's transaction, stored in result field `field`
CreateEntry(w, p, field, next) ==
    /\ \/ LET row == [account_id |-> p.AccountID, amount |-> p.Amount]
          IN  /\ Invoke(w, "CreateEntry", p.AccountID, TRUE)
              /\ tx' = [tx EXCEPT ![w].entries = @ (+) SetToBag({row})]
              /\ result' = [result EXCEPT ![w][field] = row]
              /\ pc' = [pc EXCEPT ![w] = next]
              /\ UNCHANGED err
       \/ /\ Invoke(w, "CreateEntry", p.AccountID, FALSE)
          /\ FnReturns(w, StoreErr("CreateEntry"))
          /\ UNCHANGED <<tx, result>>
    /\ UNCHANGED <<accounts, transfers, entries, lock, arg, rbErr, ret, ncalls, req, resp, hlog>>

\* result.FromEntry, err = q.CreateEntry(ctx, CreateEntryParams{...})
CreateFromEntry(w) ==
    /\ pc[w] = "from_entry"
    /\ CreateEntry(w, FromEntryParams(arg[w]), "FromEntry", "to_entry")

\* result.ToEntry, err = q.CreateEntry(ctx, CreateEntryParams{...})
CreateToEntry(w) ==
    /\ pc[w] = "to_entry"
    /\ CreateEntry(w, ToEntryParams(arg[w]), "ToEntry", "add_from")

\* q.AddAccountBalance(ctx, p) inside w's transaction, stored in result field
\* `field`: the update waits for the row lock, and the store may fail it (lost
\* connection, deadlock victim, cancelled context).  `last` says that fn
\* returns nil after it.
AddAccountBalance(w, p, field, last) ==
    /\ \/ /\ CanLock(w, p.ID)
          /\ Invoke(w, "AddAccountBalance", p.ID, TRUE)
          /\ LET row == AddedRow(Visible(w, p.ID), p.Amount)
             IN  /\ tx' = [tx EXCEPT ![w].accounts = {r \in @ : r.id # p.ID} \cup {row}]
                 /\ result' = [result EXCEPT ![w][field] = row]
          /\ lock' = [lock EXCEPT ![p.ID] = w]
          /\ IF last
             THEN FnReturns(w, NilErr)
             ELSE pc' = [pc EXCEPT ![w] = "add_to"] /\ UNCHANGED err
       \/ /\ Invoke(w, "AddAccountBalance", p.ID, FALSE)
          /\ FnReturns(w, StoreErr("AddAccountBalance"))
          /\ UNCHANGED <<tx, result, lock>>
    /\ UNCHANGED <<accounts, transfers, entries, arg, rbErr, ret, ncalls, req, resp, hlog>>

\* result.FromAccount, err = q.AddAccountBalance(ctx, AddAccountBalanceParams{...})
AddFromBalance(w) ==
    /\ pc[w] = "add_from"
    /\ AddAccountBalance(w, FromBalanceParams(arg[w]), "FromAccount", FALSE)

\* result.ToAccount, err = q.AddAccountBalance(...); return nil
AddToBalance(w) ==
    /\ pc[w] = "add_to"
    /\ AddAccountBalance(w, ToBalanceParams(arg[w]), "ToAccount", TRUE)

\* execTx: if rbErr := tx.Rollback(); rbErr != nil { return fmt.Errorf(...) }
\*         return err
\* Whether or not the store reports the rollback as failed, the transaction
\* is over: its writes are gone and its locks released.
Rollback(w) ==
    /\ pc[w] = "rollback"
    /\ \E rb \in {NilErr, StoreErr("Rollback")} :
          /\ Invoke(w, "Rollback", 0, rb = NilErr)
          /\ rbErr' = [rbErr EXCEPT ![w] = rb]
          /\ ret' = [ret EXCEPT ![w] = RollbackResult(err[w], rb)]
    /\ tx' = [tx EXCEPT ![w] = EmptyTx]
    /\ lock' = ReleaseLocks(w)
    /\ pc' = [pc EXCEPT ![w] = "done"]
    /\ UNCHANGED <<accounts, transfers, entries, arg, result, err, ncalls, req, resp, hlog>>

\* execTx: return tx.Commit()
\* A commit the store reports as failed has applied nothing.
Commit(w) ==
    /\ pc[w] = "commit"
    /\ \/ /\ Invoke(w, "Commit", 0, TRUE)
          /\ accounts' = AppliedAccounts(w)
          /\ transfers' = transfers (+) tx[w].transfers
          /\ entries' = entries (+) tx[w].entries
          /\ ret' = [ret EXCEPT ![w] = NilErr]
       \/ /\ Invoke(w, "Commit", 0, FALSE)
          /\ ret' = [ret EXCEPT ![w] = StoreErr("Commit")]
          /\ UNCHANGED <<accounts, transfers, entries>>
    /\ tx' = [tx EXCEPT ![w] = EmptyTx]
    /\ lock' = ReleaseLocks(w)
    /\ pc' = [pc EXCEPT ![w] = "done"]
    /\ UNCHANGED <<arg, result, err, rbErr, ncalls, req, resp, hlog>>

\* TransferTx has returned (result, err); the worker is free for another call
Return(w) ==
    /\ pc[w] = "done"
    /\ pc' = [pc EXCEPT ![w] = "idle"]
    /\ arg' = [arg EXCEPT ![w] = ZeroArg]
    /\ result' = [result EXCEPT ![w] = ZeroResult]
    /\ err' = [err EXCEPT ![w] = NilErr]
    /\ rbErr' = [rbErr EXCEPT ![w] = NilErr]
    /\ ret' = [ret EXCEPT ![w] = NilErr]
    /\ calls' = [calls EXCEPT ![w] = <<>>]
    /\ UNCHANGED <<accounts, transfers, entries, lock, tx, ncalls, req, resp, hlog>>

Next ==
    \E w \in Workers :
        \/ TransferTx(w)
        \/ BeginTx(w)
        \/ CreateTransfer(w)
        \/ CreateFromEntry(w)
        \/ CreateToEntry(w)
        \/ AddFromBalance(w)
        \/ AddToBalance(w)
        \/ Rollback(w)
        \/ Commit(w)
        \/ Return(w)

Spec == Init /\ [][Next]_vars

\* ------------------------------------------- the transfer endpoint (api)
\* POST /api/v1/transfers: the authorization middleware, then createTransfer,
\* which guards the transfer by two account lookups before it calls
\* TransferTx.  A handler is a worker; its position continues in pc.

\* account ids a request may name: the two rows and one id with no row
RequestAccounts == Accounts \cup {3}

\* amounts a request may carry: the callers' amounts, zero and a negative one
RequestAmounts == Amounts \cup {0, -10}

\* currencies a request may name, and principals it may authenticate as
RequestCurrencies == {"CAD", "USD", "hi"}
AccountCurrencies == {"CAD", "USD"}
Principals == {NoAuth, "alice", "bob"}

\* util.IsSupportedCurrency, the `currency` binding validator
IsSupportedCurrency(currency) == currency \in {"USD", "EUR", "CAD"}

\* ctx.ShouldBindJSON(&req) succeeds: the binding tags of createTransferRequest
\* (`required` rejects the zero value)
ShouldBindJSONAnyAmount(r) ==
    /\ r.from_account_id # 0 /\ r.from_account_id >= 1
    /\ r.to_account_id # 0 /\ r.to_account_id >= 1
    /\ IsSupportedCurrency(r.currency)

ShouldBindJSONCapped(r) ==
    /\ r.from_account_id # 0 /\ r.from_account_id >= 1
    /\ r.to_account_id # 0 /\ r.to_account_id >= 1
    /\ r.amount # 0 /\ r.amount > 0 /\ r.amount <= 100
    /\ IsSupportedCurrency(r.currency)

ShouldBindJSON(r) ==
    /\ r.from_account_id # 0 /\ r.from_account_id >= 1
    /\ r.to_account_id # 0 /\ r.to_account_id >= 1
    /\ r.amount # 0 /\ r.amount > 0
    /\ IsSupportedCurrency(r.currency)

\* the authorization middleware in front of the route: 401 and the handler
\* is not run when the request carries no valid authorization, 0 to go on
AuthMiddleware(r) == IF r.username = NoAuth THEN 401 ELSE 0

\* errors of store.GetAccount: sql.ErrNoRows when the id has no row
ErrNoRows == <<"sql: no rows in result set">>

\* util.CheckError: the status it writes, 0 when err is nil (it returns true)
CheckErrorAlways500(e) == IF e # NilErr THEN 500 ELSE 0

CheckError(e) ==
    IF e # NilErr
    THEN IF e = ErrNoRows THEN 404 ELSE 500
    ELSE 0

\* validAccount after GetAccount returned (account, e): the status it writes,
\* 0 when it returns true
ValidAccountAnyCurrency(account, e, currency) == CheckError(e)

ValidAccount(account, e, currency) ==
    IF CheckError(e) # 0 THEN CheckError(e)
    ELSE IF account.currency # currency THEN 400
    ELSE 0

\* if fromAccount.Owner != authPayload.Username { 401 }
OwnerCheckSkipped(account, username) == 0

OwnerCheckForbidden(account, username) == IF account.owner # username THEN 403 ELSE 0

OwnerCheck(account, username) == IF account.owner # username THEN 401 ELSE 0

\* the response after TransferTx returned e
TransferResponse(e) == IF e # NilErr THEN 500 ELSE 200

\* what store.GetAccount(id) may return: the committed row, ErrNoRows when
\* there is none, or the driver's error
GetAccountOutcomes(id) ==
    (IF id \in DOMAIN accounts
     THEN {[account |-> accounts[id], err |-> NilErr]}
     ELSE {[account |-> ZeroAccount, err |-> ErrNoRows]})
    \cup {[account |-> ZeroAccount, err |-> StoreErr("GetAccount")]}

HandlerCall(op, id, e) == [op |-> op, id |-> id, err |-> e]

\* ctx.JSON(status, ...); return
Respond(w, status) ==
    /\ resp' = [resp EXCEPT ![w] = status]
    /\ pc' = [pc EXCEPT ![w] = "responded"]

engine == <<arg, result, err, rbErr, ret, tx, calls, lock>>

\* a request reaches the route: the middleware, then createTransfer up to its
\* first store access
Request(w) ==
    /\ pc[w] = "idle"
    /\ ncalls < MaxRequests
    /\ ncalls' = ncalls + 1
    /\ \E from \in RequestAccounts, to \in RequestAccounts, amount \in RequestAmounts,
          currency \in RequestCurrencies, username \in Principals :
          LET r == [from_account_id |-> from, to_account_id |-> to, amount |-> amount,
                    currency |-> currency, username |-> username]
          IN  /\ req' = [req EXCEPT ![w] = r]
              /\ IF AuthMiddleware(r) # 0 THEN Respond(w, AuthMiddleware(r))
                 ELSE IF ~ShouldBindJSON(r) THEN Respond(w, 400)
                 ELSE pc' = [pc EXCEPT ![w] = "lookup_from"] /\ UNCHANGED resp
    /\ UNCHANGED <<store, engine, hlog>>

\* validAccount(req.FromAccountID, req.Currency), then the ownership check
LookupFrom(w) ==
    /\ pc[w] = "lookup_from"
    /\ \E o \in GetAccountOutcomes(req[w].from_account_id) :
          /\ hlog' = [hlog EXCEPT ![w] =
                        Append(@, HandlerCall("GetAccount", req[w].from_account_id, o.err))]
          /\ IF ValidAccount(o.account, o.err, req[w].currency) # 0
             THEN Respond(w, ValidAccount(o.account, o.err, req[w].currency))
             ELSE IF OwnerCheck(o.account, req[w].username) # 0
             THEN Respond(w, OwnerCheck(o.account, req[w].username))
             ELSE pc' = [pc EXCEPT ![w] = "lookup_to"] /\ UNCHANGED resp
    /\ UNCHANGED <<store, engine, ncalls, req>>

\* validAccount(req.ToAccountID, req.Currency), then
\* server.store.TransferTx(ctx, arg) with arg built from the request
LookupTo(w) ==
    /\ pc[w] = "lookup_to"
    /\ \E o \in GetAccountOutcomes(req[w].to_account_id) :
          LET looked == Append(hlog[w], HandlerCall("GetAccount", req[w].to_account_id, o.err))
          IN  IF ValidAccount(o.account, o.err, req[w].currency) # 0
              THEN /\ Respond(w, ValidAccount(o.account, o.err, req[w].currency))
                   /\ hlog' = [hlog EXCEPT ![w] = looked]
                   /\ UNCHANGED <<arg, result>>
              ELSE /\ arg' = [arg EXCEPT ![w] =
                                [FromAccountID |-> req[w].from_account_id,
                                 ToAccountID |-> req[w].to_account_id,
                                 Amount |-> req[w].amount]]
                   /\ result' = [result EXCEPT ![w] = ZeroResult]
                   /\ hlog' = [hlog EXCEPT ![w] = Append(looked, HandlerCall("TransferTx", 0, NilErr))]
                   /\ pc' = [pc EXCEPT ![w] = "begin"]
                   /\ UNCHANGED resp
    /\ UNCHANGED <<store, lock, err, rbErr, ret, tx, calls, ncalls, req>>

\* TransferTx returned: 500 with its error, 200 with its result
TransferReturned(w) ==
    /\ pc[w] = "done"
    /\ Respond(w, TransferResponse(ret[w]))
    /\ UNCHANGED <<store, engine, ncalls, req, hlog>>

\* the response is sent; the handler is free for another request
Finish(w) ==
    /\ pc[w] = "responded"
    /\ pc' = [pc EXCEPT ![w] = "idle"]
    /\ arg' = [arg EXCEPT ![w] = ZeroArg]
    /\ result' = [result EXCEPT ![w] = ZeroResult]
    /\ err' = [err EXCEPT ![w] = NilErr]
    /\ rbErr' = [rbErr EXCEPT ![w] = NilErr]
    /\ ret' = [ret EXCEPT ![w] = NilErr]
    /\ calls' = [calls EXCEPT ![w] = <<>>]
    /\ req' = [req EXCEPT ![w] = ZeroRequest]
    /\ resp' = [resp EXCEPT ![w] = 0]
    /\ hlog' = [hlog EXCEPT ![w] = <<>>]
    /\ UNCHANGED <<store, lock, tx, ncalls>>

\* the accounts table behind the endpoint: account 2 is held in CAD or in USD
InitApi ==
    /\ \E c \in AccountCurrencies :
          accounts = [id \in Accounts |->
                        IF id = 2 THEN [InitAccount(id) EXCEPT !.currency = c]
                        ELSE InitAccount(id)]
    /\ transfers = EmptyBag
    /\ entries = EmptyBag
    /\ lock = [id \in Accounts |-> NoWorker]
    /\ pc = [w \in Workers |-> "idle"]
    /\ arg = [w \in Workers |-> ZeroArg]
    /\ result = [w \in Workers |-> ZeroResult]
    /\ err = [w \in Workers |-> NilErr]
    /\ rbErr = [w \in Workers |-> NilErr]
    /\ ret = [w \in Workers |-> NilErr]
    /\ tx = [w \in Workers |-> EmptyTx]
    /\ calls = [w \in Workers |-> <<>>]
    /\ ncalls = 0
    /\ req = [w \in Workers |-> ZeroRequest]
    /\ resp = [w \in Workers |-> 0]
    /\ hlog = [w \in Workers |-> <<>>]

NextApi ==
    \E w \in Workers :
        \/ Request(w)
        \/ LookupFrom(w)
        \/ LookupTo(w)
        \/ BeginTx(w)
        \/ CreateTransfer(w)
        \/ CreateFromEntry(w)
        \/ CreateToEntry(w)
        \/ AddFromBalance(w)
        \/ AddToBalance(w)
        \/ Rollback(w)
        \/ Commit(w)
        \/ TransferReturned(w)
        \/ Finish(w)

SpecApi == InitApi /\ [][NextApi]_vars

\* ------------------------------------------- the account endpoints (api)
\* POST /accounts, GET, PUT and DELETE /accounts/:id behind the authorization
\* middleware.  Each handler makes one store call, so each is one step.

\* ids a request may name (0 fails the binding), balances an update may
\* carry, currencies an account may be opened in
AccountIds == {0, 1, 2, 3}
UpdateBalances == {-5, 0, 500}
CreateCurrencies == {"CAD", "USD", "hi"}

AccountRequest(kind, id, balance, currency, username) ==
    [kind |-> kind, id |-> id, balance |-> balance, currency |-> currency,
     username |-> username]

\* the table behind the endpoints after one committed transfer of 30 from
\* account 1 to account 2, both opened with balance 0
LedgerAccount(id) == [InitAccount(id) EXCEPT !.balance = IF id = 1 THEN -30 ELSE 30]

\* binding of createAccountRequest
BindCreateAccount(r) == r.currency # "" /\ IsSupportedCurrency(r.currency)

\* binding of getAccountRequest and deleteAccountRequest: uri id required, min=1
BindAccountUri(r) == r.id # 0 /\ r.id >= 1

\* binding of updateAccountRequest: uri id required, min=1; balance min=0
BindUpdateAccount(r) == r.id # 0 /\ r.id >= 1 /\ r.balance >= 0

\* errors of the store's account queries
ErrUniqueViolation == <<"pq: unique_violation">>
ErrForeignKeyViolation == <<"pq: foreign_key_violation">>

\* store.CreateAccount(owner, currency, balance): the new row under the next
\* id, a unique violation when the owner holds an account in that currency,
\* or the driver's error
CreateAccountOutcomes(owner, currency, balance) ==
    (IF \E id \in DOMAIN accounts :
            accounts[id].owner = owner /\ accounts[id].currency = currency
     THEN {[account |-> ZeroAccount, err |-> ErrUniqueViolation]}
     ELSE {[account |-> [id |-> Cardinality(DOMAIN accounts) + 1, owner |-> owner,
                         balance |-> balance, currency |-> currency],
            err |-> NilErr]})
    \cup {[account |-> ZeroAccount, err |-> StoreErr("CreateAccount")]}

\* store.UpdateAccount(id, balance): the row with its balance set, ErrNoRows
\* when there is none, or the driver's error
UpdateAccountOutcomes(id, balance) ==
    (IF id \in DOMAIN accounts
     THEN {[account |-> [accounts[id] EXCEPT !.balance = balance], err |-> NilErr]}
     ELSE {[account |-> ZeroAccount, err |-> ErrNoRows]})
    \cup {[account |-> ZeroAccount, err |-> StoreErr("UpdateAccount")]}

\* store.DeleteAccount(id): refused while entries reference the account,
\* nil otherwise (also when there is no such row), or the driver's error
DeleteAccountOutcomes(id) ==
    (IF \E e \in BagToSet(entries) : e.account_id = id
     THEN {ErrForeignKeyViolation}
     ELSE {NilErr})
    \cup {StoreErr("DeleteAccount")}

\* the response of createAccount after CreateAccount returned e
CreateAccountResponse(e) ==
    IF e # NilErr
    THEN IF e \in {ErrForeignKeyViolation, ErrUniqueViolation} THEN 403 ELSE 500
    ELSE 200

\* if err != nil { 500 } else { 200 }
StoreCallResponse(e) == IF e # NilErr THEN 500 ELSE 200

\* the part every account handler starts with: one more request is taken
\* and recorded; the engine is not involved
TakeRequest(w, r) ==
    /\ pc[w] = "idle"
    /\ ncalls < MaxRequests
    /\ ncalls' = ncalls + 1
    /\ req' = [req EXCEPT ![w] = r]
    /\ UNCHANGED <<transfers, entries, engine>>

Logged(w, op, id, e) == hlog' = [hlog EXCEPT ![w] = Append(@, HandlerCall(op, id, e))]

createAccount(w) ==
    \E currency \in CreateCurrencies, username \in Principals :
        LET r == AccountRequest("create", 0, 0, currency, username)
        IN  /\ TakeRequest(w, r)
            /\ IF AuthMiddleware(r) # 0
               THEN Respond(w, AuthMiddleware(r)) /\ UNCHANGED <<accounts, hlog>>
               ELSE IF ~BindCreateAccount(r)
               THEN Respond(w, 400) /\ UNCHANGED <<accounts, hlog>>
               ELSE \E o \in CreateAccountOutcomes(username, currency, 0) :
                       /\ Logged(w, "CreateAccount", o.account.id, o.err)
                       /\ accounts' = IF o.err = NilErr
                                      THEN [id \in DOMAIN accounts \cup {o.account.id} |->
                                              IF id = o.account.id THEN o.account
                                              ELSE accounts[id]]
                                      ELSE accounts
                       /\ Respond(w, CreateAccountResponse(o.err))

getAccount(w) ==
    \E id \in AccountIds, username \in Principals :
        LET r == AccountRequest("get", id, 0, "", username)
        IN  /\ TakeRequest(w, r)
            /\ UNCHANGED accounts
            /\ IF AuthMiddleware(r) # 0
               THEN Respond(w, AuthMiddleware(r)) /\ UNCHANGED hlog
               ELSE IF ~BindAccountUri(r)
               THEN Respond(w, 400) /\ UNCHANGED hlog
               ELSE \E o \in GetAccountOutcomes(id) :
                       /\ Logged(w, "GetAccount", id, o.err)
                       /\ Respond(w, IF CheckError(o.err) # 0 THEN CheckError(o.err)
                                     ELSE IF OwnerCheck(o.account, username) # 0
                                     THEN OwnerCheck(o.account, username)
                                     ELSE 200)

deleteAccount(w) ==
    \E id \in AccountIds, username \in Principals :
        LET r == AccountRequest("delete", id, 0, "", username)
        IN  /\ TakeRequest(w, r)
            /\ IF AuthMiddleware(r) # 0
               THEN Respond(w, AuthMiddleware(r)) /\ UNCHANGED <<accounts, hlog>>
               ELSE IF ~BindAccountUri(r)
               THEN Respond(w, 400) /\ UNCHANGED <<accounts, hlog>>
               ELSE \E e \in DeleteAccountOutcomes(id) :
                       /\ Logged(w, "DeleteAccount", id, e)
                       /\ accounts' = IF e = NilErr
                                      THEN [i \in DOMAIN accounts \ {id} |-> accounts[i]]
                                      ELSE accounts
                       /\ Respond(w, StoreCallResponse(e))

updateAccount(w) ==
    \E id \in AccountIds, balance \in UpdateBalances, username \in Principals :
        LET r == AccountRequest("update", id, balance, "", username)
        IN  /\ TakeRequest(w, r)
            /\ IF AuthMiddleware(r) # 0
               THEN Respond(w, AuthMiddleware(r)) /\ UNCHANGED <<accounts, hlog>>
               ELSE IF ~BindUpdateAccount(r)
               THEN Respond(w, 400) /\ UNCHANGED <<accounts, hlog>>
               ELSE \E o \in UpdateAccountOutcomes(id, balance) :
                       /\ Logged(w, "UpdateAccount", id, o.err)
                       /\ accounts' = IF o.err = NilErr
                                      THEN [accounts EXCEPT ![id] = o.account]
                                      ELSE accounts
                       /\ Respond(w, StoreCallResponse(o.err))

InitAccounts ==
    /\ accounts = [id \in Accounts |-> LedgerAccount(id)]
    /\ transfers = SetToBag({[from_account_id |-> 1, to_account_id |-> 2, amount |-> 30]})
    /\ entries = SetToBag({[account_id |-> 1, amount |-> -30], [account_id |-> 2, amount |-> 30]})
    /\ lock = [id \in Accounts |-> NoWorker]
    /\ pc = [w \in Workers |-> "idle"]
    /\ arg = [w \in Workers |-> ZeroArg]
    /\ result = [w \in Workers |-> ZeroResult]
    /\ err = [w \in Workers |-> NilErr]
    /\ rbErr = [w \in Workers |-> NilErr]
    /\ ret = [w \in Workers |-> NilErr]
    /\ tx = [w \in Workers |-> EmptyTx]
    /\ calls = [w \in Workers |-> <<>>]
    /\ ncalls = 0
    /\ req = [w \in Workers |-> ZeroRequest]
    /\ resp = [w \in Workers |-> 0]
    /\ hlog = [w \in Workers |-> <<>>]

NextAccounts ==
    \E w \in Workers :
        \/ createAccount(w)
        \/ getAccount(w)
        \/ updateAccount(w)
        \/ deleteAccount(w)
        \/ Finish(w)

SpecAccounts == InitAccounts /\ [][NextAccounts]_vars

\* ------------------------------------------------ the login endpoint (api)
\* POST /api/v1/users/login, registered before the authorization middleware.

\* the users table: username -> password the stored hash was made from
Users == {"alice", "bob"}
PasswordOf(username) == IF username = "alice" THEN "secret1" ELSE "hunter22"

\* usernames and passwords a login request may carry: known and unknown
\* users, a name that is not alphanumeric, an empty one; a right, a wrong
\* and a too short password
LoginUsernames == Users \cup {"carol", "a-b", ""}
LoginPasswords == {"secret1", "hunter22", "wrong00", "short"}

AlphaNum == {"alice", "bob", "carol"}
PasswordLen(password) == IF password = "short" THEN 5 ELSE IF password = "hunter22" THEN 8 ELSE 7

\* util.HashPassword and util.Checkpassword: the hash is not the password,
\* and a password checks against the hash made from it only
HashPassword(password) == <<"bcrypt", password>>
Checkpassword(password, hashed) ==
    IF HashPassword(password) = hashed THEN NilErr ELSE <<"bcrypt: mismatch">>

\* binding of loginUserRequest: username required,alphanum; password
\* required,min=6
BindLoginUser(r) ==
    /\ r.username # "" /\ r.username \in AlphaNum
    /\ r.password # "" /\ PasswordLen(r.password) >= 6

\* store.GetUser(username): the row, ErrNoRows, or the driver's error
GetUserOutcomes(username) ==
    (IF username \in Users
     THEN {[user |-> [username |-> username,
                      hashed_password |-> HashPassword(PasswordOf(username))],
            err |-> NilErr]}
     ELSE {[user |-> [username |-> "", hashed_password |-> <<>>], err |-> ErrNoRows]})
    \cup {[user |-> [username |-> "", hashed_password |-> <<>>], err |-> StoreErr("GetUser")]}

\* tokenMaker.CreateToken may fail
CreateTokenOutcomes == {NilErr, <<"token: cannot create">>}

\* ctx.JSON(status, ...): one more response written; the status line sent is
\* the one of the first write
WriteJSON(log, status) == Append(log, HandlerCall("JSON", status, NilErr))
FirstStatus(old, status) == IF old = 0 THEN status ELSE old

\* where loginUser goes on after the binding of the body: the branch that
\* answers 400 has no return, so the handler goes on to GetUser either way
AfterBindLogin(ok) == "get_user"

\* loginUser up to its store access: bind the body, answer 400 if that fails
loginUser(w) ==
    /\ pc[w] = "idle"
    /\ ncalls < MaxRequests
    /\ ncalls' = ncalls + 1
    /\ \E username \in LoginUsernames, password \in LoginPasswords :
          LET r == [username |-> username, password |-> password]
          IN  /\ req' = [req EXCEPT ![w] = r]
              /\ IF ~BindLoginUser(r)
                 THEN /\ hlog' = [hlog EXCEPT ![w] = WriteJSON(@, 400)]
                      /\ resp' = [resp EXCEPT ![w] = FirstStatus(@, 400)]
                 ELSE UNCHANGED <<hlog, resp>>
              /\ pc' = [pc EXCEPT ![w] = AfterBindLogin(BindLoginUser(r))]
    /\ UNCHANGED <<store, engine>>

\* loginUser from store.GetUser on: CheckError, Checkpassword, CreateToken
\* and the response
LoginGetUser(w) ==
    /\ pc[w] = "get_user"
    /\ \E o \in GetUserOutcomes(req[w].username), t \in CreateTokenOutcomes :
          LET looked == Append(hlog[w], HandlerCall("GetUser", req[w].username, o.err))
              pw == Checkpassword(req[w].password, o.user.hashed_password)
              checked == Append(looked, HandlerCall("Checkpassword", req[w].username, pw))
              made == Append(checked, HandlerCall("CreateToken", o.user.username, t))
          IN  IF CheckError(o.err) # 0
              THEN /\ hlog' = [hlog EXCEPT ![w] = WriteJSON(looked, CheckError(o.err))]
                   /\ resp' = [resp EXCEPT ![w] = FirstStatus(@, CheckError(o.err))]
              ELSE IF pw # NilErr
              THEN /\ hlog' = [hlog EXCEPT ![w] = WriteJSON(checked, 401)]
                   /\ resp' = [resp EXCEPT ![w] = FirstStatus(@, 401)]
              ELSE /\ hlog' = [hlog EXCEPT ![w] = WriteJSON(made, StoreCallResponse(t))]
                   /\ resp' = [resp EXCEPT ![w] = FirstStatus(@, StoreCallResponse(t))]
    /\ pc' = [pc EXCEPT ![w] = "responded"]
    /\ UNCHANGED <<store, engine, ncalls, req>>

NextLogin ==
    \E w \in Workers :
        \/ loginUser(w)
        \/ LoginGetUser(w)
        \/ Finish(w)

SpecLogin == Init /\ [][NextLogin]_vars

\* ------------------------------------------------------ reading the state
Primitives == {"CreateTransfer", "CreateEntry", "AddAccountBalance"}

\* how many times the current call of w has invoked op
Count(w, op) == Cardinality({i \in DOMAIN calls[w] : calls[w][i].op = op})

\* the current call's BeginTx failed
BeginFailed(w) == calls[w] # <<>> /\ calls[w][1].op = "BeginTx" /\ ~calls[w][1].ok

\* a primitive of the current call failed, so fn returned its error
FnFailed(w) == \E i \in DOMAIN calls[w] : calls[w][i].op \in Primitives /\ ~calls[w][i].ok

\* a primitive failed after the transfer record had been created
FailedAfterTransfer(w) ==
    \E i \in DOMAIN calls[w] :
        calls[w][i].op \in {"CreateEntry", "AddAccountBalance"} /\ ~calls[w][i].ok

\* TransferTx has returned without error
Succeeded(w) == pc[w] = "done" /\ ret[w] = NilErr

Entry(id, amount) == [account_id |-> id, amount |-> amount]

RECURSIVE SumAmounts(_, _)
\* the sum of the amounts of the rows of S, each counted as often as bag holds it
SumAmounts(S, bag) ==
    IF S = {} THEN 0
    ELSE LET r == CHOOSE x \in S : TRUE
         IN  r.amount * CopiesIn(r, bag) + SumAmounts(S \ {r}, bag)

\* the sum of the amounts of all committed entries recorded against account id
EntrySum(id) == SumAmounts({r \in BagToSet(entries) : r.account_id = id}, entries)

RECURSIVE SumBalances(_, _)
SumBalances(S, f) ==
    IF S = {} THEN 0
    ELSE LET a == CHOOSE x \in S : TRUE
         IN  f[a].balance + SumBalances(S \ {a}, f)

TotalBalance == SumBalances(Accounts, accounts)
InitTotal == SumBalances(Accounts, [id \in Accounts |-> InitAccount(id)])

\* ------------------------------------------------------------------ claims
\* C1 Conservation: the commit that ends a TransferTx(from X, to Y, amount A)
\* returning without error adds exactly two entries to the table, (X, -A) and
\* (Y, +A); they are the call's two CreateEntry invocations, they are the
\* entries the result reports, and their amounts sum to zero.
C1_Conservation ==
    [][\A w \in Workers :
         (pc[w] = "commit" /\ pc'[w] = "done" /\ ret'[w] = NilErr) =>
            LET X == arg[w].FromAccountID
                Y == arg[w].ToAccountID
                A == arg[w].Amount
            IN  /\ entries' = entries (+) SetToBag({Entry(X, -A)}) (+) SetToBag({Entry(Y, A)})
                /\ Count(w, "CreateEntry") = 2
                /\ result'[w].FromEntry = Entry(X, -A)
                /\ result'[w].ToEntry = Entry(Y, A)
                /\ result'[w].FromEntry.amount + result'[w].ToEntry.amount = 0]_vars

\* a transfer between two different accounts has returned without error
C1_Witness ==
    \E w \in Workers :
        /\ Succeeded(w)
        /\ arg[w].FromAccountID # arg[w].ToAccountID
        /\ BagIn(result[w].FromEntry, entries)
        /\ BagIn(result[w].ToEntry, entries)

\* C2 Atomicity: once a primitive has failed after the transfer record was
\* created, the call goes to rollback and never to commit; the rollback
\* leaves the committed store as it was and nothing of the attempt stays
\* pending; and the committed store changes only by the successful commit of
\* a call none of whose primitives failed.
C2_Atomicity ==
    [][ /\ \A w \in Workers :
              FailedAfterTransfer(w) =>
                  /\ pc[w] \in {"rollback", "done"}
                  /\ Count(w, "Commit") = 0
                  /\ pc[w] = "done" => tx[w] = EmptyTx /\ (\A id \in Accounts : lock[id] # w)
        /\ \A w \in Workers :
              (pc[w] = "rollback" /\ pc'[w] # "rollback") =>
                  store' = store /\ tx'[w] = EmptyTx
        /\ store' # store =>
              \E w \in Workers :
                  /\ pc[w] = "commit" /\ pc'[w] = "done" /\ ret'[w] = NilErr
                  /\ ~FnFailed(w) ]_vars

\* a call has been rolled back after a failure that followed the creation of
\* its transfer record and its debit entry, while the other worker's transfer
\* is committed
C2_Witness ==
    \E w \in Workers :
        /\ pc[w] = "done"
        /\ FailedAfterTransfer(w)
        /\ result[w].FromEntry # ZeroEntry
        /\ Count(w, "Rollback") = 1
        /\ transfers # EmptyBag

\* C3 Balance correctness: in every committed state, each account's balance
\* is its opening balance plus the sum of the amounts of all entries the
\* committed transfers recorded against it.
C3_BalanceCorrect ==
    \A id \in Accounts : accounts[id].balance = InitBalance(id) + EntrySum(id)

\* two transfers have committed and moved an account's balance
C3_Witness ==
    /\ BagCardinality(transfers) = 2
    /\ \E id \in Accounts : accounts[id].balance # InitBalance(id) /\ EntrySum(id) # 0

\* C4 Total money is conserved: in every committed state the balances of all
\* accounts sum to what they summed to initially.
C4_TotalConserved == TotalBalance = InitTotal

\* one transfer has committed and changed balances, another has failed
C4_Witness ==
    /\ \E id \in Accounts : accounts[id].balance # InitBalance(id)
    /\ \E w \in Workers : pc[w] = "done" /\ ret[w] # NilErr

\* the account row whose lock w's next balance adjustment needs
NextRow(w) ==
    IF pc[w] = "add_from" THEN FromBalanceParams(arg[w]).ID ELSE ToBalanceParams(arg[w]).ID

\* w is at a balance adjustment whose row lock v holds
WaitsFor(w, v) == pc[w] \in {"add_from", "add_to"} /\ lock[NextRow(w)] = v

\* C5 Deadlock freedom: no state is reached in which two concurrent transfers
\* each wait for an account row lock the other one holds (a wait that only a
\* store-side abort of one of them can end).
C5_DeadlockFree ==
    \A w1 \in Workers, w2 \in Workers :
        w1 # w2 => ~(WaitsFor(w1, w2) /\ WaitsFor(w2, w1))

\* the account rows the current call of w has adjusted (locked), in order
AdjustOrder(w) ==
    LET adj == SelectSeq(calls[w], LAMBDA c : c.op = "AddAccountBalance")
    IN  [i \in DOMAIN adj |-> adj[i].id]

\* w1 and w2 transfer between the same two accounts in opposite directions
Opposite(w1, w2) ==
    /\ arg[w1].FromAccountID = arg[w2].ToAccountID
    /\ arg[w1].ToAccountID = arg[w2].FromAccountID
    /\ arg[w1].FromAccountID # arg[w1].ToAccountID

\* C6 Fixed lock order: two transfers between the same two accounts in
\* opposite directions adjust (lock) the two account rows in the same order.
C6_FixedLockOrder ==
    \A w1 \in Workers, w2 \in Workers :
        (Opposite(w1, w2) /\ Len(AdjustOrder(w1)) = 2 /\ Len(AdjustOrder(w2)) = 2)
            => AdjustOrder(w1) = AdjustOrder(w2)

RECURSIVE SumFn(_, _)
\* the sum of f over S
SumFn(S, f) ==
    IF S = {} THEN 0
    ELSE LET x == CHOOSE y \in S : TRUE
         IN  f[x] + SumFn(S \ {x}, f)

Transfer(from, to, amount) ==
    [from_account_id |-> from, to_account_id |-> to, amount |-> amount]

\* committed transfers of amount a out of, and into, account id
TransfersFrom(id, a) ==
    SumFn(Accounts, [to \in Accounts |-> CopiesIn(Transfer(id, to, a), transfers)])
TransfersTo(id, a) ==
    SumFn(Accounts, [from \in Accounts |-> CopiesIn(Transfer(from, id, a), transfers)])

\* C7 No partial transfer is observable: in the committed store every
\* transfer row is matched by one debit entry on its source and one credit
\* entry on its destination of the transfer's amount (there are as many
\* (X, -A) entries as transfers of A out of X, as many (X, +A) entries as
\* transfers of A into X, and no other entry), and every balance carries
\* exactly the adjustments of the committed transfers.
C7_NoPartialTransfer ==
    /\ \A id \in Accounts, a \in Amounts :
          /\ CopiesIn(Entry(id, -a), entries) = TransfersFrom(id, a)
          /\ CopiesIn(Entry(id, a), entries) = TransfersTo(id, a)
    /\ BagCardinality(entries) = 2 * BagCardinality(transfers)
    /\ \A id \in Accounts :
          accounts[id].balance = InitBalance(id) +
              SumFn(Amounts, [a \in Amounts |-> a * (TransfersTo(id, a) - TransfersFrom(id, a))])

\* one transfer is committed while another is half way: its debit entry is
\* written inside its transaction, its credit entry is not yet
C7_Witness ==
    /\ transfers # EmptyBag
    /\ \E w \in Workers : pc[w] = "to_entry" /\ BagCardinality(tx[w].entries) = 1

\* C8 execTx when fn returns an error: Rollback is invoked (once), Commit is
\* never invoked, and if Rollback succeeds execTx returns exactly the error
\* fn returned, which is the failed primitive's error.
C8_RollbackOnError ==
    \A w \in Workers :
        FnFailed(w) =>
            /\ pc[w] \in {"rollback", "done"}
            /\ Count(w, "Commit") = 0
            /\ err[w] # NilErr
            /\ pc[w] = "done" =>
                  /\ Count(w, "Rollback") = 1
                  /\ rbErr[w] = NilErr =>
                        /\ ret[w] = err[w]
                        /\ \E i \in DOMAIN calls[w] :
                              /\ calls[w][i].op \in Primitives
                              /\ ~calls[w][i].ok
                              /\ ret[w] = StoreErr(calls[w][i].op)

\* CreateTransfer failed, the rollback succeeded and execTx has returned
C8_Witness ==
    \E w \in Workers :
        /\ pc[w] = "done"
        /\ Len(calls[w]) = 3
        /\ calls[w][2] = Call("CreateTransfer", 0, FALSE)
        /\ calls[w][3] = Call("Rollback", 0, TRUE)

\* the current call's Rollback failed
RollbackFailed(w) == \E i \in DOMAIN calls[w] : calls[w][i] = Call("Rollback", 0, FALSE)

\* C9 execTx when fn returns an error and Rollback fails too: the returned
\* error carries both fn's error and the rollback error, and is neither of
\* the two alone.
C9_CompositeError ==
    \A w \in Workers :
        (pc[w] = "done" /\ FnFailed(w) /\ RollbackFailed(w)) =>
            /\ err[w] # NilErr
            /\ rbErr[w] = StoreErr("Rollback")
            /\ Carries(ret[w], err[w])
            /\ Carries(ret[w], rbErr[w])
            /\ ret[w] # err[w]
            /\ ret[w] # rbErr[w]
            /\ \E i \in DOMAIN calls[w] :
                  /\ calls[w][i].op \in Primitives
                  /\ ~calls[w][i].ok
                  /\ Carries(ret[w], StoreErr(calls[w][i].op))

\* a balance adjustment failed and so did the rollback
C9_Witness ==
    \E w \in Workers :
        /\ pc[w] = "done"
        /\ RollbackFailed(w)
        /\ \E i \in DOMAIN calls[w] : calls[w][i].op = "AddAccountBalance" /\ ~calls[w][i].ok

\* C10 execTx when the transaction cannot be opened: it returns the begin
\* error at once; BeginTx stays the only store operation of the call (no
\* primitive of fn, no Commit, no Rollback), nothing is pending or locked for
\* it, and the failing step leaves the committed store unchanged.
C10_BeginFailure ==
    /\ [](\A w \in Workers :
             BeginFailed(w) =>
                 /\ pc[w] = "done"
                 /\ calls[w] = <<Call("BeginTx", 0, FALSE)>>
                 /\ ret[w] = StoreErr("BeginTx")
                 /\ result[w] = ZeroResult
                 /\ tx[w] = EmptyTx
                 /\ \A id \in Accounts : lock[id] # w)
    /\ [][\A w \in Workers :
             (pc[w] = "begin" /\ calls'[w] = <<Call("BeginTx", 0, FALSE)>>) =>
                 /\ store' = store
                 /\ lock' = lock
                 /\ tx' = tx]_vars

\* a call whose BeginTx failed has returned while the other worker's
\* transaction is open and holds a row lock
C10_Witness ==
    \E w \in Workers, v \in Workers :
        /\ pc[w] = "done"
        /\ BeginFailed(w)
        /\ \E id \in Accounts : lock[id] = v

\* the primitives the current call of w has invoked, in order
PrimitiveCalls(w) == SelectSeq(calls[w], LAMBDA c : c.op \in Primitives)

\* fn has run all five primitives and each succeeded, so fn returned nil
FnSucceeded(w) ==
    /\ Len(PrimitiveCalls(w)) = 5
    /\ \A i \in DOMAIN PrimitiveCalls(w) : PrimitiveCalls(w)[i].ok

\* C11 execTx when fn returns nil: Commit is invoked exactly once and Rollback
\* is not invoked; execTx returns what that one Commit returned, the commit
\* error unchanged when it failed.
C11_CommitOnSuccess ==
    \A w \in Workers :
        FnSucceeded(w) =>
            /\ pc[w] \in {"commit", "done"}
            /\ err[w] = NilErr
            /\ Count(w, "Rollback") = 0
            /\ pc[w] = "commit" => Count(w, "Commit") = 0
            /\ pc[w] = "done" =>
                  /\ Count(w, "Commit") = 1
                  /\ calls[w][Len(calls[w])].op = "Commit"
                  /\ ret[w] = IF calls[w][Len(calls[w])].ok THEN NilErr ELSE StoreErr("Commit")

\* fn returned nil, the commit failed and execTx has returned
C11_Witness ==
    \E w \in Workers :
        /\ pc[w] = "done"
        /\ FnSucceeded(w)
        /\ calls[w][Len(calls[w])] = Call("Commit", 0, FALSE)

\* C12 No automatic retry: whatever fails, one call of TransferTx opens at
\* most one transaction, runs fn at most once (one CreateTransfer at most),
\* and invokes CreateEntry and AddAccountBalance at most twice each, Commit
\* and Rollback at most once each.
C12_NoRetry ==
    \A w \in Workers :
        /\ Count(w, "BeginTx") <= 1
        /\ Count(w, "CreateTransfer") <= 1
        /\ Count(w, "CreateEntry") <= 2
        /\ Count(w, "AddAccountBalance") <= 2
        /\ Count(w, "Commit") + Count(w, "Rollback") <= 1
        /\ pc[w] \in {"commit", "rollback", "done"} => Count(w, "BeginTx") = 1

\* the store failed the second balance adjustment of a call while the other
\* worker held a row lock, and the call has returned that error
C12_Witness ==
    \E w \in Workers, v \in Workers :
        /\ pc[w] = "done"
        /\ Count(w, "AddAccountBalance") = 2
        /\ ~PrimitiveCalls(w)[5].ok
        /\ ret[w] # NilErr
        /\ \E id \in Accounts : lock[id] = v

\* the order in which TransferTx(a) is to invoke its primitives
WriteOrder(a) ==
    << [op |-> "CreateTransfer", id |-> 0],
       [op |-> "CreateEntry", id |-> a.FromAccountID],
       [op |-> "CreateEntry", id |-> a.ToAccountID],
       [op |-> "AddAccountBalance", id |-> a.FromAccountID],
       [op |-> "AddAccountBalance", id |-> a.ToAccountID] >>

\* C13 Write order within one transfer: the primitives a call has invoked are
\* a prefix of create transfer, debit entry on the source, credit entry on
\* the destination, adjust source, adjust destination; every one but the last
\* invoked succeeded, so none is invoked after a failing one, and the next
\* one is invoked only while no primitive has failed.
C13_WriteOrder ==
    \A w \in Workers :
        LET prims == PrimitiveCalls(w)
        IN  /\ Len(prims) <= 5
            /\ \A i \in DOMAIN prims :
                  /\ prims[i].op = WriteOrder(arg[w])[i].op
                  /\ prims[i].id = WriteOrder(arg[w])[i].id
                  /\ i < Len(prims) => prims[i].ok
            /\ pc[w] \in {"from_entry", "to_entry", "add_from", "add_to"} =>
                  \A i \in DOMAIN prims : prims[i].ok
            /\ pc[w] = "from_entry" => Len(prims) = 1
            /\ pc[w] = "to_entry" => Len(prims) = 2
            /\ pc[w] = "add_from" => Len(prims) = 3
            /\ pc[w] = "add_to" => Len(prims) = 4

\* a transfer between two different accounts whose credit entry failed: three
\* primitives were invoked and execTx is about to roll back
C13_Witness ==
    \E w \in Workers :
        /\ pc[w] = "rollback"
        /\ arg[w].FromAccountID # arg[w].ToAccountID
        /\ Len(PrimitiveCalls(w)) = 3
        /\ ~PrimitiveCalls(w)[3].ok

\* C14 Result of a successful transfer: the commit that ends a
\* TransferTx(X, Y, A) with X # Y returning nil leaves in the result the
\* transfer {X, Y, A}, the entries {X, -A} and {Y, +A} and the two account
\* rows as adjusted: FromAccount is row X with the balance it had minus A,
\* ToAccount is row Y with the balance it had plus A (100 and 0 with A = 30
\* give 70 and 30), and these are the rows the commit makes the committed ones.
C14_TransferResult ==
    [][\A w \in Workers :
         (pc[w] = "commit" /\ pc'[w] = "done" /\ ret'[w] = NilErr
             /\ arg[w].FromAccountID # arg[w].ToAccountID) =>
            LET X == arg[w].FromAccountID
                Y == arg[w].ToAccountID
                A == arg[w].Amount
                r == result'[w]
            IN  /\ r.Transfer = Transfer(X, Y, A)
                /\ r.FromEntry = Entry(X, -A)
                /\ r.ToEntry = Entry(Y, A)
                /\ r.FromAccount = [accounts[X] EXCEPT !.balance = accounts[X].balance - A]
                /\ r.ToAccount = [accounts[Y] EXCEPT !.balance = accounts[Y].balance + A]
                /\ accounts'[X] = r.FromAccount
                /\ accounts'[Y] = r.ToAccount
                /\ (accounts[X].balance = 100 /\ accounts[Y].balance = 0 /\ A = 30) =>
                      (r.FromAccount.balance = 70 /\ r.ToAccount.balance = 30)]_vars

\* the scenario: 30 moved from the account holding 100 to the one holding 0
C14_Witness ==
    \E w \in Workers :
        /\ Succeeded(w)
        /\ result[w].Transfer = Transfer(1, 2, 30)
        /\ result[w].FromAccount.balance = 70
        /\ result[w].ToAccount.balance = 30
        /\ accounts[1].balance = 70
        /\ accounts[2].balance = 30


\* ------------------------------------------------- reading the endpoint
\* the handler of w has invoked store method op
Invoked(w, op) == \E i \in DOMAIN hlog[w] : hlog[w][i].op = op

\* the account lookups the handler of w has made, in order
Lookups(w) == SelectSeq(hlog[w], LAMBDA c : c.op = "GetAccount")

\* no transaction was opened and nothing was written for the request of w
NothingOpened(w) == ~Invoked(w, "TransferTx") /\ calls[w] = <<>> /\ tx[w] = EmptyTx

\* the request body satisfies the binding rules: ids from 1, a positive
\* amount, one of the three currencies
WellFormed(r) ==
    /\ r.from_account_id >= 1
    /\ r.to_account_id >= 1
    /\ r.amount > 0
    /\ r.currency \in {"USD", "EUR", "CAD"}

\* the row of id exists and is held in currency c
HeldIn(id, c) == id \in Accounts /\ accounts[id].currency = c

\* the principal of request r owns the source account
OwnsSource(r) == r.from_account_id \in Accounts /\ accounts[r.from_account_id].owner = r.username

\* the five conditions of the guard
GuardHolds(r) ==
    /\ HeldIn(r.from_account_id, r.currency)
    /\ OwnsSource(r)
    /\ HeldIn(r.to_account_id, r.currency)

\* a store operation invoked for the request of w has failed
StoreFailed(w) ==
    \/ \E i \in DOMAIN hlog[w] : hlog[w][i].err \notin {NilErr, ErrNoRows}
    \/ \E i \in DOMAIN calls[w] : ~calls[w][i].ok

\* C15 No sufficiency check: a well-formed, authenticated request that
\* satisfies the guard is answered 200 unless a store operation failed (then
\* 500), however its amount compares with the source balance; and the commit
\* of a transfer X -> Y, X # Y, of more than X holds leaves X's balance at
\* old - A, a negative balance (100 - 150 = -50).
C15_NoSufficiencyCheck ==
    /\ [](\A w \in Workers :
            (pc[w] = "responded" /\ req[w].username # NoAuth /\ WellFormed(req[w])
                /\ GuardHolds(req[w])) =>
               /\ resp[w] \in {200, 500}
               /\ resp[w] = 500 <=> StoreFailed(w)
               /\ resp[w] = 200 => Count(w, "Commit") = 1)
    /\ [][\A w \in Workers :
            (pc[w] = "commit" /\ pc'[w] = "done" /\ ret'[w] = NilErr
                /\ arg[w].FromAccountID # arg[w].ToAccountID
                /\ arg[w].Amount > accounts[arg[w].FromAccountID].balance) =>
               /\ accounts'[arg[w].FromAccountID].balance =
                     accounts[arg[w].FromAccountID].balance - arg[w].Amount
               /\ accounts'[arg[w].FromAccountID].balance < 0]_vars

\* 150 requested from the account holding 100: answered 200, balance -50
C15_Witness ==
    \E w \in Workers :
        /\ pc[w] = "responded"
        /\ resp[w] = 200
        /\ req[w].from_account_id = 1
        /\ req[w].amount = 150
        /\ accounts[1].balance = -50
        /\ accounts[2].balance = 150

\* C16 Guard gates the transfer: TransferTx is invoked, and a transaction
\* opened, only for a request whose source account exists in the requested
\* currency and is owned by the authenticated principal and whose destination
\* account exists in the requested currency; for any other request nothing
\* is opened or written, and no step of the guard changes the store.
C16_GuardGatesTransfer ==
    /\ [](\A w \in Workers :
            /\ ~NothingOpened(w) => (Invoked(w, "TransferTx") /\ GuardHolds(req[w]))
            /\ pc[w] \notin {"idle", "lookup_from", "lookup_to", "responded"} =>
                  Invoked(w, "TransferTx")
            /\ (pc[w] = "responded" /\ ~GuardHolds(req[w])) =>
                  (NothingOpened(w) /\ resp[w] # 200))
    /\ [][\A w \in Workers :
            (pc[w] \in {"idle", "lookup_from", "lookup_to"} /\ pc'[w] # pc[w]) =>
               UNCHANGED <<store, lock, tx, calls>>]_vars

\* a transfer into an account the principal does not own went through
C16_Witness ==
    \E w \in Workers :
        /\ pc[w] = "responded"
        /\ resp[w] = 200
        /\ Invoked(w, "TransferTx")
        /\ accounts[req[w].to_account_id].owner # req[w].username
        /\ accounts[req[w].to_account_id].balance = req[w].amount

\* C17 Not-found is distinct from other lookup failures: a lookup of the
\* guard that finds no row is answered 404, one that fails otherwise 500, and
\* one that finds a row in another currency than the requested one 400; each
\* is the handler's last store access, and the transfer is not executed.
C17_LookupFailures ==
    \A w \in Workers :
        \A i \in DOMAIN hlog[w] :
            LET l == hlog[w][i]
                rejected == \/ l.err # NilErr
                            \/ ~HeldIn(l.id, req[w].currency)
            IN  (l.op = "GetAccount" /\ rejected) =>
                    /\ i = Len(hlog[w])
                    /\ pc[w] = "responded"
                    /\ NothingOpened(w)
                    /\ l.err = ErrNoRows => (resp[w] = 404 /\ l.id \notin Accounts)
                    /\ l.err \notin {NilErr, ErrNoRows} => resp[w] = 500
                    /\ l.err = NilErr => resp[w] = 400

\* the source was found and accepted, the destination has no row: 404
C17_Witness ==
    \E w \in Workers :
        /\ pc[w] = "responded"
        /\ resp[w] = 404
        /\ Len(hlog[w]) = 2
        /\ hlog[w][2] = HandlerCall("GetAccount", req[w].to_account_id, ErrNoRows)

\* C18 (as stated) a transfer request whose amount is zero or negative gets
\* a 400 response, and neither GetAccount nor TransferTx is invoked for it.
C18_NonPositiveAmount400 ==
    \A w \in Workers :
        (pc[w] = "responded" /\ req[w].amount <= 0) =>
            (resp[w] = 400 /\ hlog[w] = <<>> /\ NothingOpened(w))

\* C18 (amended) Non-positive amount is rejected before any store access: an
\* authenticated transfer request whose amount is zero or negative gets a 400
\* response, one without valid authorization a 401; for neither is
\* GetAccount or TransferTx invoked.
C18_NonPositiveRejected ==
    \A w \in Workers :
        (pc[w] # "idle" /\ req[w].amount <= 0) =>
            /\ pc[w] = "responded"
            /\ hlog[w] = <<>>
            /\ NothingOpened(w)
            /\ resp[w] = IF req[w].username # NoAuth THEN 400 ELSE 401

\* an authenticated owner asks for a transfer of 0 and of -10
C18_Witness ==
    \E w \in Workers :
        /\ pc[w] = "responded"
        /\ req[w].username = "alice"
        /\ req[w].from_account_id = 1
        /\ req[w].currency = "CAD"
        /\ req[w].amount = -10
        /\ resp[w] = 400

\* C19 (as stated) a request without valid authorization gets 401 and no
\* store operation is invoked; a request authenticated as a principal who
\* does not own the source account gets 401 after exactly one lookup of the
\* source account and no TransferTx.
C19_UnauthorizedAsStated ==
    \A w \in Workers :
        pc[w] = "responded" =>
            /\ req[w].username = NoAuth => (resp[w] = 401 /\ hlog[w] = <<>> /\ NothingOpened(w))
            /\ (req[w].username # NoAuth /\ ~OwnsSource(req[w])) =>
                  /\ resp[w] = 401
                  /\ hlog[w] = <<HandlerCall("GetAccount", req[w].from_account_id, NilErr)>>
                  /\ NothingOpened(w)

\* C19 (amended) a request without valid authorization gets 401 and no store
\* operation is invoked; a well-formed request authenticated as a principal
\* who does not own the source account gets 401 after exactly one lookup of
\* the source account and no TransferTx, provided that lookup finds the
\* account and finds it in the requested currency.  Whatever the outcome, a
\* request of a principal who does not own the source account invokes at
\* most that one lookup and never TransferTx.
C19_Unauthorized ==
    \A w \in Workers :
        /\ req[w].username = NoAuth /\ pc[w] # "idle" =>
              (pc[w] = "responded" /\ resp[w] = 401 /\ hlog[w] = <<>> /\ NothingOpened(w))
        /\ (pc[w] = "responded" /\ req[w].username # NoAuth /\ ~OwnsSource(req[w])) =>
              /\ NothingOpened(w)
              /\ Len(hlog[w]) <= 1
              /\ (WellFormed(req[w]) /\ HeldIn(req[w].from_account_id, req[w].currency)
                     /\ hlog[w] # <<>> /\ hlog[w][1].err = NilErr) =>
                    /\ resp[w] = 401
                    /\ hlog[w] = <<HandlerCall("GetAccount", req[w].from_account_id, NilErr)>>

\* bob asks for a transfer out of alice's account
C19_Witness ==
    \E w \in Workers :
        /\ pc[w] = "responded"
        /\ req[w].username = "bob"
        /\ req[w].from_account_id = 1
        /\ req[w].currency = "CAD"
        /\ req[w].amount = 30
        /\ resp[w] = 401
        /\ Len(hlog[w]) = 1


\* ------------------------------------------------ further engine claims
\* the transaction of the current call of w was opened
Opened(w) == calls[w] # <<>> /\ calls[w][1] = Call("BeginTx", 0, TRUE)

\* the last store operation the current call of w invoked
LastCall(w) == calls[w][Len(calls[w])]

\* C22 No transaction is left open: when execTx has returned, a transaction
\* it opened has had exactly one of Commit and Rollback invoked on it, as the
\* call's last store operation, and holds no pending write and no row lock;
\* when a primitive failed (a cancelled context included) that operation is
\* Rollback, invoked before the error is returned; a transaction that was
\* not opened has neither.
C22_NoOpenTransaction ==
    \A w \in Workers :
        /\ (pc[w] = "done" /\ Opened(w)) =>
              /\ Count(w, "Commit") + Count(w, "Rollback") = 1
              /\ LastCall(w).op \in {"Commit", "Rollback"}
              /\ FnFailed(w) => (LastCall(w).op = "Rollback" /\ ret[w] # NilErr)
              /\ ~FnFailed(w) => LastCall(w).op = "Commit"
              /\ tx[w] = EmptyTx
              /\ \A id \in Accounts : lock[id] # w
        /\ ~Opened(w) =>
              /\ Count(w, "Commit") + Count(w, "Rollback") = 0
              /\ tx[w] = EmptyTx
              /\ \A id \in Accounts : lock[id] # w
        /\ (Opened(w) /\ pc[w] # "done") =>
              Count(w, "Commit") + Count(w, "Rollback") = 0

\* the source balance adjustment failed (as it does when the context is
\* cancelled); Rollback was invoked and then the error returned
C22_Witness ==
    \E w \in Workers :
        /\ pc[w] = "done"
        /\ Opened(w)
        /\ Len(calls[w]) = 6
        /\ calls[w][5] = Call("AddAccountBalance", arg[w].FromAccountID, FALSE)
        /\ calls[w][6].op = "Rollback"
        /\ ret[w] # NilErr

\* C23 Ledger immutability: no step removes or alters a committed transfer
\* or entry row (each table only grows, as a bag of rows); the tables
\* change only by a successful commit, which appends the one transfer row
\* {X, Y, A} and two entry rows.
C23_LedgerImmutable ==
    [][ <<transfers, entries>>' # <<transfers, entries>> =>
           /\ transfers \sqsubseteq transfers'
           /\ entries \sqsubseteq entries'
           /\ \E w \in Workers :
                  /\ pc[w] = "commit" /\ pc'[w] = "done" /\ ret'[w] = NilErr
                  /\ transfers' = transfers (+)
                        SetToBag({Transfer(arg[w].FromAccountID, arg[w].ToAccountID,
                                           arg[w].Amount)})
                  /\ BagCardinality(entries') = BagCardinality(entries) + 2 ]_vars

\* a second transfer is committed on top of the first one's rows
C23_Witness ==
    /\ BagCardinality(transfers) = 2
    /\ BagCardinality(entries) = 4
    /\ \E w \in Workers : Succeeded(w) /\ arg[w].FromAccountID # arg[w].ToAccountID

\* what TransferTx(a) adds, in all, to the balance of account id
Delta(a, id) ==
    (IF a.FromAccountID = id THEN -a.Amount ELSE 0) + (IF a.ToAccountID = id THEN a.Amount ELSE 0)

\* the workers whose open transaction holds an uncommitted update of row id
Updating(id) == {w \in Workers : \E r \in tx[w].accounts : r.id = id}

\* C26 No lost update under concurrency: at most one open transaction holds
\* an uncommitted update of a row, and what it holds is the committed balance
\* plus its own adjustments so far; every successful commit, in every
\* interleaving, moves each balance from its current committed value by the
\* call's delta on that account; and once no call is in flight each balance is
\* the initial one plus the deltas of all committed calls.
C26_NoLostUpdate ==
    /\ [](\A id \in Accounts :
            /\ Cardinality(Updating(id)) <= 1
            /\ \A w \in Updating(id) :
                  /\ lock[id] = w
                  /\ Visible(w, id).balance - accounts[id].balance \in
                        {Delta(arg[w], id), -arg[w].Amount})
    /\ []((\A w \in Workers : pc[w] \in {"idle", "done"}) =>
            \A id \in Accounts :
               accounts[id].balance = InitBalance(id) +
                  SumFn(Amounts, [a \in Amounts |-> a * (TransfersTo(id, a) - TransfersFrom(id, a))]))
    /\ [][\A w \in Workers :
            (pc[w] = "commit" /\ pc'[w] = "done" /\ ret'[w] = NilErr) =>
               \A id \in Accounts :
                  accounts'[id].balance = accounts[id].balance + Delta(arg[w], id)]_vars

\* two calls that debit account 1 have both committed: 100 - 30 - 150
C26_Witness ==
    /\ \A w \in Workers : Succeeded(w) /\ arg[w].FromAccountID = 1 /\ arg[w].ToAccountID = 2
    /\ \E w \in Workers : arg[w].Amount = 30
    /\ \E w \in Workers : arg[w].Amount = 150
    /\ accounts[1].balance = -80
    /\ accounts[2].balance = 180

\* C29 Frame of a transfer: the commit of TransferTx(X, Y, A) changes nothing
\* of the accounts table but the balance of X and of Y; id, owner and currency
\* of every account stay what they were in every step; and a call that fails
\* changes no account (only a successful commit changes the table).
C29_TransferFrame ==
    [][ /\ \A id \in Accounts :
              /\ accounts'[id].id = accounts[id].id
              /\ accounts'[id].owner = accounts[id].owner
              /\ accounts'[id].currency = accounts[id].currency
        /\ DOMAIN accounts' = DOMAIN accounts
        /\ accounts' # accounts =>
              \E w \in Workers :
                  /\ pc[w] = "commit" /\ pc'[w] = "done" /\ ret'[w] = NilErr
                  /\ \A id \in Accounts \ {arg[w].FromAccountID, arg[w].ToAccountID} :
                        accounts'[id] = accounts[id]
        /\ \A w \in Workers :
              (pc'[w] = "done" /\ pc[w] # "done" /\ ret'[w] # NilErr) => accounts' = accounts ]_vars

\* a transfer from account 1 to itself is committed beside a failed call:
\* account 2 is an account the transfer does not name
C29_Witness ==
    \E w \in Workers :
        /\ Succeeded(w)
        /\ arg[w].FromAccountID = 1 /\ arg[w].ToAccountID = 1
        /\ accounts[2] = InitAccount(2)
        /\ \E v \in Workers : pc[v] = "done" /\ ret[v] # NilErr


\* C25 Guard evaluation order and short-circuit: the handler looks accounts
\* up only for a request that passed binding, the source first and the
\* destination second; the destination is looked up only after the source was
\* found, in the requested currency and owned by the caller; TransferTx comes
\* only after both lookups succeeded; and a response is written once, when the
\* handler stops.
C25_GuardOrder ==
    \A w \in Workers :
        LET looked == Lookups(w)
        IN  /\ hlog[w] # <<>> => WellFormed(req[w])
            /\ Len(looked) <= 2
            /\ Len(looked) >= 1 => (hlog[w][1].op = "GetAccount"
                                    /\ looked[1].id = req[w].from_account_id)
            /\ Len(looked) = 2 =>
                  /\ hlog[w][2].op = "GetAccount"
                  /\ looked[2].id = req[w].to_account_id
                  /\ looked[1].err = NilErr
                  /\ HeldIn(req[w].from_account_id, req[w].currency)
                  /\ OwnsSource(req[w])
            /\ Invoked(w, "TransferTx") =>
                  /\ Len(hlog[w]) = 3 /\ hlog[w][3].op = "TransferTx"
                  /\ looked[2].err = NilErr
            /\ (pc[w] # "idle" /\ ~(HeldIn(req[w].from_account_id, req[w].currency)
                                     /\ OwnsSource(req[w]))) => Len(looked) <= 1
            /\ resp[w] # 0 <=> pc[w] = "responded"

\* the source account is held in another currency than the requested one:
\* 400 after the one lookup, the destination was not looked up
C25_Witness ==
    \E w \in Workers :
        /\ pc[w] = "responded"
        /\ resp[w] = 400
        /\ req[w].username = "alice"
        /\ req[w].from_account_id = 1
        /\ req[w].to_account_id = 2
        /\ req[w].currency = "USD"
        /\ hlog[w] = <<HandlerCall("GetAccount", 1, NilErr)>>


\* C21 Two outcomes only: a transfer call that has returned either succeeded,
\* with the full result whose rows are committed (answered 200), or failed
\* with an error (answered 500), and then the result returned alongside the
\* error holds no row of the attempt: no transfer, entry or account.
C21_TwoOutcomes ==
    \A w \in Workers :
        (Invoked(w, "TransferTx") /\ pc[w] \in {"done", "responded"}) =>
            \/ /\ ret[w] = NilErr
               /\ result[w].Transfer = Transfer(arg[w].FromAccountID, arg[w].ToAccountID,
                                                arg[w].Amount)
               /\ result[w].FromEntry = Entry(arg[w].FromAccountID, -arg[w].Amount)
               /\ result[w].ToEntry = Entry(arg[w].ToAccountID, arg[w].Amount)
               /\ result[w].FromAccount.id = arg[w].FromAccountID
               /\ result[w].ToAccount.id = arg[w].ToAccountID
               /\ BagIn(result[w].Transfer, transfers)
               /\ BagIn(result[w].FromEntry, entries)
               /\ BagIn(result[w].ToEntry, entries)
               /\ pc[w] = "responded" => resp[w] = 200
            \/ /\ ret[w] # NilErr
               /\ result[w] = ZeroResult
               /\ pc[w] = "responded" => resp[w] = 500

\* C27 Self-transfer: a well-formed request of the owner to transfer from
\* account X to X is not rejected (200, or 500 when a store operation
\* failed); its commit leaves X's committed balance unchanged, records the
\* entries (X, -A) and (X, +A), and the returned FromAccount and ToAccount
\* both report X's committed balance.
C27_SelfTransfer ==
    /\ [](\A w \in Workers :
            (pc[w] = "responded" /\ req[w].username # NoAuth /\ WellFormed(req[w])
                /\ GuardHolds(req[w]) /\ req[w].from_account_id = req[w].to_account_id) =>
               /\ resp[w] \in {200, 500}
               /\ resp[w] = 500 <=> StoreFailed(w))
    /\ [][\A w \in Workers :
            (pc[w] = "commit" /\ pc'[w] = "done" /\ ret'[w] = NilErr
                /\ arg[w].FromAccountID = arg[w].ToAccountID) =>
               LET X == arg[w].FromAccountID
                   A == arg[w].Amount
               IN  /\ accounts'[X].balance = accounts[X].balance
                   /\ entries' = entries (+) SetToBag({Entry(X, -A)}) (+) SetToBag({Entry(X, A)})
                   /\ result'[w].FromAccount.balance = accounts'[X].balance
                   /\ result'[w].ToAccount.balance = accounts'[X].balance]_vars


\* ------------------------------------------- claims on the account endpoints
\* C24 Balance equals replayed ledger: in every committed state each
\* account's balance is the sum of the amounts of the entries recorded
\* against it, and no step changes a balance without the entries recorded
\* against the account changing by the same amount.
C24_BalanceEqualsLedger ==
    /\ [](\A id \in DOMAIN accounts : accounts[id].balance = EntrySum(id))
    /\ [][\A id \in DOMAIN accounts \cap DOMAIN accounts' :
            accounts'[id].balance - accounts[id].balance = EntrySum(id)' - EntrySum(id)]_vars

\* C28 Owner-only account access: a get, update or delete request that names
\* an existing account succeeds (200) only when the authenticated principal
\* owns that account; one that names an account of someone else is rejected
\* and leaves the accounts table as it was.
C28_OwnerOnly ==
    [][\A w \in Workers :
         (pc[w] = "idle" /\ pc'[w] = "responded"
             /\ req'[w].kind \in {"get", "update", "delete"}
             /\ req'[w].id \in DOMAIN accounts
             /\ accounts[req'[w].id].owner # req'[w].username) =>
            (resp'[w] # 200 /\ accounts' = accounts)]_vars


\* ---------------------------------------------- claims on the login endpoint
\* the responses the handler of w has written
Written(w) == SelectSeq(hlog[w], LAMBDA c : c.op = "JSON")

\* the body of request r passes loginUserRequest's binding rules: an
\* alphanumeric username and a password of six characters or more
LoginWellFormed(r) == r.username \in AlphaNum /\ PasswordLen(r.password) >= 6

\* C30 Rejected login body stops the handler: once loginUser has found the
\* body invalid it has written the 400 response and stopped: no user lookup,
\* no password check, no token creation and no second response.
C30_RejectedLoginStops ==
    \A w \in Workers :
        (pc[w] # "idle" /\ ~LoginWellFormed(req[w])) =>
            /\ pc[w] = "responded"
            /\ hlog[w] = <<HandlerCall("JSON", 400, NilErr)>>
            /\ resp[w] = 400


=============================================================================
